---- MODULE Spec2Model ----
(***************************************************************************)
(* Model of the deal bot of src/app.py: the link pipeline                  *)
(* (extract_product_link, unshorten_url, strip_affiliate_tags,             *)
(* fetch_page_content, scrape_product_info, scrape_and_format_deal) and    *)
(* the message handler process_product_link.                               *)
(*                                                                         *)
(* Python strings are TLA+ strings; the string operations the code uses    *)
(* (find, split, lower, startswith, in, the regular expressions) are       *)
(* computed character by character.  The emoji of the reply literals are   *)
(* left out of the literals; the rest of each literal is the source's.     *)
(***************************************************************************)
EXTENDS Integers, Sequences, FiniteSets, TLC

(***************************************************************************)
(* Python string primitives.                                               *)
(***************************************************************************)

\* s[i-1] of Python (TLA+ strings are 1-based); "" outside the string.
Ch(s, i) == IF i >= 1 /\ i <= Len(s) THEN SubSeq(s, i, i) ELSE ""

\* s[i-1:] of Python.
From(s, i) == SubSeq(s, i, Len(s))

\* s[:i-1] of Python.
Upto(s, i) == SubSeq(s, 1, i - 1)

\* s.startswith(p, i-1)
StartsWithAt(s, p, i) == i + Len(p) - 1 <= Len(s) /\ SubSeq(s, i, i + Len(p) - 1) = p

StartsWith(s, p) == StartsWithAt(s, p, 1)

EndsWith(s, p) == Len(p) <= Len(s) /\ SubSeq(s, Len(s) - Len(p) + 1, Len(s)) = p

\* sub in s
Contains(s, sub) == \E i \in 1..(Len(s) + 1) : StartsWithAt(s, sub, i)

\* s.find(sub) + 1: the first position of sub in s, 0 when absent.
Find(s, sub) ==
    IF Contains(s, sub)
    THEN CHOOSE i \in 1..(Len(s) + 1) :
            /\ StartsWithAt(s, sub, i)
            /\ \A j \in 1..(i - 1) : ~StartsWithAt(s, sub, j)
    ELSE 0

\* The first position at or after i of a character of the set cs, Len(s)+1 when none.
FindAnyFrom(s, cs, i) ==
    IF \E j \in i..Len(s) : Ch(s, j) \in cs
    THEN CHOOSE j \in i..Len(s) :
            /\ Ch(s, j) \in cs
            /\ \A k \in i..(j - 1) : Ch(s, k) \notin cs
    ELSE Len(s) + 1

UpperAlpha == "ABCDEFGHIJKLMNOPQRSTUVWXYZ"
LowerAlpha == "abcdefghijklmnopqrstuvwxyz"
DigitChars == "0123456789"

CharsOf(s) == {Ch(s, i) : i \in 1..Len(s)}

Letters == CharsOf(UpperAlpha) \cup CharsOf(LowerAlpha)
Digits == CharsOf(DigitChars)

\* c.lower() of one character
LowerCh(c) ==
    IF c \in CharsOf(UpperAlpha) THEN Ch(LowerAlpha, Find(UpperAlpha, c)) ELSE c

\* c.upper() of one character
UpperCh(c) ==
    IF c \in CharsOf(LowerAlpha) THEN Ch(UpperAlpha, Find(LowerAlpha, c)) ELSE c

RECURSIVE Lower(_)
\* s.lower()
Lower(s) == IF s = "" THEN "" ELSE LowerCh(Ch(s, 1)) \o Lower(From(s, 2))

RECURSIVE Upper(_)
\* s.upper()
Upper(s) == IF s = "" THEN "" ELSE UpperCh(Ch(s, 1)) \o Upper(From(s, 2))

RECURSIVE Split(_, _)
\* s.split(c) for a one-character separator c
Split(s, c) ==
    LET i == Find(s, c)
    IN  IF i = 0 THEN <<s>> ELSE <<Upto(s, i)>> \o Split(From(s, i + 1), c)

RECURSIVE Join(_, _)
\* sep.join(parts)
Join(parts, sep) ==
    IF parts = <<>> THEN ""
    ELSE IF Len(parts) = 1 THEN parts[1]
    ELSE parts[1] \o sep \o Join(Tail(parts), sep)

RECURSIVE SelectSeqOf(_, _)
\* The subsequence of the elements of seq that are in the set keep.
SelectSeqOf(seq, keep) ==
    IF seq = <<>> THEN <<>>
    ELSE (IF Head(seq) \in keep THEN <<Head(seq)>> ELSE <<>>) \o SelectSeqOf(Tail(seq), keep)

(***************************************************************************)
(* Module constants of src/app.py.                                         *)
(***************************************************************************)

SUPPORTED_SHORTENERS ==
    <<"cutt.ly", "spoo.me", "amzn-to.co", "fkrt.cc", "bitli.in", "da.gd", "wishlink.com">>

AFFILIATE_PARAMS ==
    <<"tag", "ref", "aff_id", "partner_id", "linkCode", "camp", "creative",
      "creativeASIN", "ascsubtag", "utm_source", "utm_medium", "utm_campaign",
      "fbclid", "_encoding", "psc", "coliid", "colid", "sr_p_7">>

Range(seq) == {seq[i] : i \in 1..Len(seq)}

(***************************************************************************)
(* urllib.parse, as strip_affiliate_tags and unshorten_url use it.         *)
(***************************************************************************)

SchemeChars == Letters \cup Digits \cup {"+", "-", "."}

\* The schemes of urllib's uses_netloc that the model's URLs can carry.
UsesNetloc == {"http", "https", "ftp"}

\* urlparse(url): scheme, netloc, path (with its ;params), query, fragment.
urlparse(url) ==
    LET i == Find(url, ":")
        hasScheme ==
            /\ i > 1
            /\ Ch(url, 1) \in Letters
            /\ \A j \in 1..(i - 1) : Ch(url, j) \in SchemeChars
        scheme == IF hasScheme THEN Lower(Upto(url, i)) ELSE ""
        rest == IF hasScheme THEN From(url, i + 1) ELSE url
        hasNetloc == StartsWith(rest, "//")
        delim == FindAnyFrom(rest, {"/", "?", "#"}, 3)
        netloc == IF hasNetloc THEN SubSeq(rest, 3, delim - 1) ELSE ""
        rest2 == IF hasNetloc THEN From(rest, delim) ELSE rest
        h == Find(rest2, "#")
        fragment == IF h > 0 THEN From(rest2, h + 1) ELSE ""
        rest3 == IF h > 0 THEN Upto(rest2, h) ELSE rest2
        q == Find(rest3, "?")
        query == IF q > 0 THEN From(rest3, q + 1) ELSE ""
        path == IF q > 0 THEN Upto(rest3, q) ELSE rest3
    IN  [scheme |-> scheme, netloc |-> netloc, path |-> path,
         query |-> query, fragment |-> fragment]

\* urlunparse(parts)
urlunparse(p) ==
    LET needSlashes ==
            \/ p.netloc # ""
            \/ (p.scheme # "" /\ p.scheme \in UsesNetloc /\ ~StartsWith(p.path, "//"))
        path1 == IF needSlashes /\ p.path # "" /\ ~StartsWith(p.path, "/")
                 THEN "/" \o p.path ELSE p.path
        url1 == IF needSlashes THEN "//" \o p.netloc \o path1 ELSE p.path
        url2 == IF p.scheme # "" THEN p.scheme \o ":" \o url1 ELSE url1
        url3 == IF p.query # "" THEN url2 \o "?" \o p.query ELSE url2
    IN  IF p.fragment # "" THEN url3 \o "#" \o p.fragment ELSE url3

\* The %XX escapes the model's URLs can carry, with the character each stands for.
HexEscapes ==
    <<<<"2F", "/">>, <<"25", "%">>, <<"3D", "=">>, <<"26", "&">>,
      <<"2B", "+">>, <<"20", " ">>, <<"67", "g">>>>

EscapeOf(c) ==
    IF \E e \in Range(HexEscapes) : e[2] = c /\ e[1] # "20" /\ e[1] # "67"
    THEN "%" \o (CHOOSE e \in Range(HexEscapes) : e[2] = c /\ e[1] # "20" /\ e[1] # "67")[1]
    ELSE c

RECURSIVE unquote_plus(_)
\* unquote_plus(s): '+' is a space, %XX is the character, a malformed % stays.
unquote_plus(s) ==
    IF s = "" THEN ""
    ELSE IF Ch(s, 1) = "+" THEN " " \o unquote_plus(From(s, 2))
    ELSE IF Ch(s, 1) = "%" /\ \E e \in Range(HexEscapes) : Upper(SubSeq(s, 2, 3)) = e[1]
         THEN (CHOOSE e \in Range(HexEscapes) : Upper(SubSeq(s, 2, 3)) = e[1])[2]
                  \o unquote_plus(From(s, 4))
    ELSE Ch(s, 1) \o unquote_plus(From(s, 2))

RECURSIVE quote_plus(_)
\* quote_plus(s): a space is '+', letters, digits and _.-~ stay, the rest is %XX.
quote_plus(s) ==
    IF s = "" THEN ""
    ELSE IF Ch(s, 1) = " " THEN "+" \o quote_plus(From(s, 2))
    ELSE EscapeOf(Ch(s, 1)) \o quote_plus(From(s, 2))

RECURSIVE parse_qsl(_)
\* parse_qsl over the '&'-separated fields: a field without '=' or with an
\* empty value is dropped (keep_blank_values is False).
parse_qsl(fields) ==
    IF fields = <<>> THEN <<>>
    ELSE LET f == Head(fields)
             e == Find(f, "=")
             kept == f # "" /\ e > 0 /\ Len(f) > e
         IN  (IF kept
              THEN <<[key |-> unquote_plus(Upto(f, e)), value |-> unquote_plus(From(f, e + 1))]>>
              ELSE <<>>) \o parse_qsl(Tail(fields))

RECURSIVE GroupByKey(_, _)
\* The dict parse_qs builds: one entry per key in order of first occurrence,
\* each with the list of the key's values in order.
GroupByKey(pairs, dict) ==
    IF pairs = <<>> THEN dict
    ELSE LET p == Head(pairs)
             at == {i \in 1..Len(dict) : dict[i].key = p.key}
         IN  IF at = {}
             THEN GroupByKey(Tail(pairs), Append(dict, [key |-> p.key, values |-> <<p.value>>]))
             ELSE LET i == CHOOSE j \in at : TRUE
                  IN  GroupByKey(Tail(pairs),
                                 [dict EXCEPT ![i].values = Append(@, p.value)])

\* parse_qs(query)
parse_qs(query) == GroupByKey(parse_qsl(Split(query, "&")), <<>>)

RECURSIVE urlencode(_)
\* urlencode(dict, doseq=True)
urlencode(dict) ==
    IF dict = <<>> THEN ""
    ELSE LET d == Head(dict)
             fields == [i \in 1..Len(d.values) |->
                           quote_plus(d.key) \o "=" \o quote_plus(d.values[i])]
             rest == urlencode(Tail(dict))
         IN  IF rest = "" THEN Join(fields, "&") ELSE Join(fields, "&") \o "&" \o rest

(***************************************************************************)
(* Regular-expression primitives.                                          *)
(***************************************************************************)

\* \s of Python's re on the characters the model's texts carry.
Whitespace == {" ", "\n", "\t"}

\* \w of Python's re on the characters the model's texts carry.
WordChars == Letters \cup Digits \cup {"_"}

Min(a, b) == IF a <= b THEN a ELSE b

\* The first position at or after i whose character is not in cs (Len(s)+1 when
\* the run reaches the end): the end of a greedy [cs]* at i.
RunEnd(s, cs, i) ==
    IF \E j \in i..Len(s) : Ch(s, j) \notin cs
    THEN CHOOSE j \in i..Len(s) :
            /\ Ch(s, j) \notin cs
            /\ \A k \in i..(j - 1) : Ch(s, k) \in cs
    ELSE Len(s) + 1

\* s.strip()
Strip(s) ==
    LET a == RunEnd(s, Whitespace, 1)
    IN  IF a > Len(s) THEN ""
        ELSE LET b == CHOOSE j \in a..Len(s) :
                          /\ Ch(s, j) \notin Whitespace
                          /\ \A k \in (j + 1)..Len(s) : Ch(s, k) \in Whitespace
             IN  SubSeq(s, a, b)

(***************************************************************************)
(* extract_product_link (src/app.py 59-78).                                *)
(***************************************************************************)

LabelChars == Letters \cup Digits \cup {"-"}

RECURSIVE LabelEnds(_, _)
\* (?:[a-zA-Z0-9-]+\.)+ at j: the positions after each "label." of the chain
\* of labels that starts at j.
LabelEnds(s, j) ==
    LET e == RunEnd(s, LabelChars, j)
    IN  IF e > j /\ Ch(s, e) = "." THEN <<e + 1>> \o LabelEnds(s, e + 1) ELSE <<>>

\* [a-zA-Z]{2,6} at e: the letters it takes (greedy), fewer than 2 is no match.
TldLen(s, e) == Min(RunEnd(s, Letters, e) - e, 6)

\* The least element of a non-empty set of numbers.
Least(S) == CHOOSE x \in S : \A y \in S : x <= y

\* The greatest element of a non-empty set of numbers.
Greatest(S) == CHOOSE x \in S : \A y \in S : y <= x

\* (?:/[^\s]*)? at t: the position after the path, t when no '/' is there.
PathEnd(s, t) == IF Ch(s, t) = "/" THEN FindAnyFrom(s, Whitespace, t) ELSE t

\* The end of the match for the label chain that stops at e.
DomainEnd(s, e) == PathEnd(s, e + TldLen(s, e))

\* LongestDomain with the top-level domain written [a-zA-Z]{1,6}.
LongestDomain_OneLetterTld(s, ends) ==
    IF \E k \in 1..Len(ends) : TldLen(s, ends[k]) >= 1
    THEN DomainEnd(s, ends[Greatest({k \in 1..Len(ends) : TldLen(s, ends[k]) >= 1})])
    ELSE 0

\* The longest label chain of ends that a top-level domain follows: the
\* position after the match, 0 when no chain has one.
LongestDomain(s, ends) ==
    IF \E k \in 1..Len(ends) : TldLen(s, ends[k]) >= 2
    THEN DomainEnd(s, ends[Greatest({k \in 1..Len(ends) : TldLen(s, ends[k]) >= 2})])
    ELSE 0

\* The pattern after its optional first group, at j: the position after the
\* match, 0 when there is none.  The label chain is greedy and gives labels
\* back until a top-level domain of two letters follows; the path is optional.
MatchDomainAt(s, j) == LongestDomain(s, LabelEnds(s, j))

\* The length of https?:// at i, 0 when it is not there.
SchemeLen(s, i) ==
    IF StartsWithAt(s, "https://", i) THEN 8 ELSE IF StartsWithAt(s, "http://", i) THEN 7 ELSE 0

\* (https?://(?:www\.)?|www\.)? at i: the lengths the group can take, in the
\* order the regex engine tries them.
PrefixLensFor(s, i, scheme) ==
    (IF scheme > 0 /\ StartsWithAt(s, "www.", i + scheme) THEN <<scheme + 4>> ELSE <<>>)
        \o (IF scheme > 0 THEN <<scheme>> ELSE <<>>)
        \o (IF StartsWithAt(s, "www.", i) THEN <<4>> ELSE <<>>)
        \o <<0>>

PrefixLens(s, i) == PrefixLensFor(s, i, SchemeLen(s, i))

\* The first of the prefix lengths after which the rest of the pattern
\* matches: the position after the match, 0 when none does.
FirstPrefixMatch(s, i, lens) ==
    IF \E n \in 1..Len(lens) : MatchDomainAt(s, i + lens[n]) > 0
    THEN MatchDomainAt(s, i + lens[Least({n \in 1..Len(lens) : MatchDomainAt(s, i + lens[n]) > 0})])
    ELSE 0

\* The whole pattern at i: the position after the match, 0 when there is none.
MatchUrlAt(s, i) == FirstPrefixMatch(s, i, PrefixLens(s, i))

\* Lines 74-75: the scheme is prepended when the match has none.
WithScheme(url) ==
    IF StartsWith(url, "http://") \/ StartsWith(url, "https://") THEN url ELSE "https://" \o url

\* match.group(0) for the match that starts at i.
MatchText(s, i) == SubSeq(s, i, MatchUrlAt(s, i) - 1)

\* url_pattern.search: the leftmost position where the pattern matches.
FirstUrlAt(s, starts) == IF starts = {} THEN <<>> ELSE <<WithScheme(MatchText(s, Least(starts)))>>

\* The result of extract_product_link; <<>> is None, <<url>> a URL.
extract_product_link(message_text) ==
    FirstUrlAt(message_text, {i \in 1..Len(message_text) : MatchUrlAt(message_text, i) > 0})

(***************************************************************************)
(* The regular expressions of scrape_product_info and                      *)
(* scrape_and_format_deal.                                                 *)
(***************************************************************************)

GENDER_TAGS == <<"men", "women", "kids", "unisex">>
QUANTITY_TAGS == <<"pack of", "set of", "pcs", "kg", "ml", "g", "quantity">>
MEESHO_FALLBACK_PIN == "110001"

\* tag.capitalize()
Capitalize(s) == IF s = "" THEN "" ELSE UpperCh(Ch(s, 1)) \o Lower(From(s, 2))

\* \b at position p of s: exactly one of the characters before and at p is a
\* word character.
WordBoundary(s, p) == (Ch(s, p - 1) \in WordChars) # (Ch(s, p) \in WordChars)

\* r'\b' + re.escape(tag) + r'\b' with re.IGNORECASE, matched at i.
TagMatchAt(s, tag, i) ==
    /\ i + Len(tag) - 1 <= Len(s)
    /\ Lower(SubSeq(s, i, i + Len(tag) - 1)) = tag
    /\ WordBoundary(s, i)
    /\ WordBoundary(s, i + Len(tag))

\* re.search(r'\b' + re.escape(tag) + r'\b', s, re.IGNORECASE)
TagSearch(s, tag) == \E i \in 1..Len(s) : TagMatchAt(s, tag, i)

RECURSIVE TagRemove(_, _)
\* re.sub(r'\b' + re.escape(tag) + r'\b', '', s, flags=re.IGNORECASE)
TagRemove(s, tag) ==
    IF ~TagSearch(s, tag) THEN s
    ELSE LET i == CHOOSE x \in 1..Len(s) :
                      TagMatchAt(s, tag, x) /\ \A y \in 1..(x - 1) : ~TagMatchAt(s, tag, y)
         IN  Upto(s, i) \o TagRemove(From(s, i + Len(tag)), tag)

RECURSIVE RemoveAllTags(_, _)
\* for tag in tags: title = re.sub(tag pattern, '', title).strip()
RemoveAllTags(title, tags) ==
    IF tags = <<>> THEN title
    ELSE RemoveAllTags(Strip(TagRemove(title, Head(tags))), Tail(tags))

\* The first tag of tags that re.search finds in s, <<>> when none does.
FirstTag(s, tags) ==
    LET hit == {k \in 1..Len(tags) : TagSearch(s, tags[k])}
    IN  IF hit = {} THEN <<>> ELSE <<tags[CHOOSE k \in hit : \A m \in hit : k <= m]>>

\* " ".join(s.split())
RECURSIVE CollapseSpaces(_)
CollapseSpaces(s) ==
    LET t == Strip(s)
        w == FindAnyFrom(t, Whitespace, 1)
    IN  IF w > Len(t) THEN t
        ELSE Upto(t, w) \o " " \o CollapseSpaces(From(t, w))

\* A case-blind literal at i: the position after it, 0 when it is not there.
LiteralAt(s, lit, i) ==
    IF i + Len(lit) - 1 <= Len(s) /\ Lower(SubSeq(s, i, i + Len(lit) - 1)) = Lower(lit)
    THEN i + Len(lit) ELSE 0

\* \|\s*Amazon\.in|\s*Online at Best Price|\s*-\s*Buy Online.*  matched at i
\* (re.IGNORECASE): the position after the match, 0 when there is none.
NoiseMatchAt(s, i) ==
    LET a1 == IF Ch(s, i) = "|" THEN LiteralAt(s, "Amazon.in", RunEnd(s, Whitespace, i + 1)) ELSE 0
        a2 == LiteralAt(s, "Online at Best Price", RunEnd(s, Whitespace, i))
        d == RunEnd(s, Whitespace, i)
        a3 == IF Ch(s, d) = "-"
              THEN (IF LiteralAt(s, "Buy Online", RunEnd(s, Whitespace, d + 1)) > 0
                    THEN FindAnyFrom(s, {"\n"}, d) ELSE 0)
              ELSE 0
    IN  IF a1 > 0 THEN a1 ELSE IF a2 > 0 THEN a2 ELSE a3

RECURSIVE NoiseRemove(_)
\* re.sub of the noise pattern by ''
NoiseRemove(s) ==
    LET at == {i \in 1..Len(s) : NoiseMatchAt(s, i) > 0}
    IN  IF at = {} THEN s
        ELSE LET i == CHOOSE x \in at : \A y \in at : x <= y
             IN  Upto(s, i) \o NoiseRemove(From(s, NoiseMatchAt(s, i)))

BracketTags ==
    <<"Men", "Women", "Kids", "Unisex", "Pack of", "Set of", "Pcs", "Kg", "Ml", "G", "Quantity">>

\* \[(Men|...|Quantity)\]\s*  matched at i (re.IGNORECASE): the position after
\* the match, 0 when there is none.
BracketMatchAt(s, i) ==
    LET hit == {k \in 1..Len(BracketTags) :
                   /\ Ch(s, i) = "["
                   /\ LiteralAt(s, BracketTags[k], i + 1) > 0
                   /\ Ch(s, LiteralAt(s, BracketTags[k], i + 1)) = "]"}
    IN  IF hit = {} THEN 0
        ELSE RunEnd(s, Whitespace, LiteralAt(s, BracketTags[CHOOSE k \in hit : TRUE], i + 1) + 1)

RECURSIVE BracketRemove(_)
\* re.sub of the bracketed-tag pattern by ''
BracketRemove(s) ==
    LET at == {i \in 1..Len(s) : BracketMatchAt(s, i) > 0}
    IN  IF at = {} THEN s
        ELSE LET i == CHOOSE x \in at : \A y \in at : x <= y
             IN  Upto(s, i) \o BracketRemove(From(s, BracketMatchAt(s, i)))

\* [₹Rs] with re.IGNORECASE
PriceSigns == {"₹", "R", "r", "S", "s"}

RECURSIVE GroupsEnd(_, _)
\* (?:,\d{3})* at p: the position after the last ",ddd" taken.
GroupsEnd(s, p) ==
    IF Ch(s, p) = "," /\ Ch(s, p + 1) \in Digits /\ Ch(s, p + 2) \in Digits /\ Ch(s, p + 3) \in Digits
    THEN GroupsEnd(s, p + 4) ELSE p

\* (?:\.\d{2})? at g: the position after it.
FractionEnd(s, g) ==
    IF Ch(s, g) = "." /\ Ch(s, g + 1) \in Digits /\ Ch(s, g + 2) \in Digits THEN g + 3 ELSE g

\* Group 1 at d: one to three digits, the ",ddd" groups, an optional ".dd";
\* <<first, last>>, <<>> when no digit is at d.
PriceGroupAt(s, d, n) ==
    IF n >= 1 THEN <<d, FractionEnd(s, GroupsEnd(s, d + n)) - 1>> ELSE <<>>

PriceDigitsAt(s, d) == PriceGroupAt(s, d, Min(RunEnd(s, Digits, d) - d, 3))

\* [₹Rs]{1,2}\s* at i with signs sign characters taken.
PriceAfterSigns(s, i, signs) ==
    IF signs >= 1 THEN PriceDigitsAt(s, RunEnd(s, Whitespace, i + signs)) ELSE <<>>

\* PRICE_PATTERN matched at i: <<first, last>> of group 1, <<>> when no match.
PriceMatchAt(s, i) == PriceAfterSigns(s, i, Min(RunEnd(s, PriceSigns, i) - i, 2))

GroupText(s, m) == SubSeq(s, m[1], m[2])

FirstPriceAt(s, starts) ==
    IF starts = {} THEN <<>> ELSE <<GroupText(s, PriceMatchAt(s, Least(starts)))>>

\* PRICE_PATTERN.search(s): <<group(1)>>, <<>> when there is no match.
PriceSearch(s) == FirstPriceAt(s, {i \in 1..Len(s) : PriceMatchAt(s, i) # <<>>})

RECURSIVE RemoveChar(_, _)
\* s.replace(c, '')
RemoveChar(s, c) ==
    IF s = "" THEN ""
    ELSE (IF Ch(s, 1) = c THEN "" ELSE Ch(s, 1)) \o RemoveChar(From(s, 2), c)

(***************************************************************************)
(* strip_affiliate_tags (src/app.py 107-124).                              *)
(***************************************************************************)

\* The filter of the dict comprehension: key.lower() in AFFILIATE_PARAMS.
IsAffiliateKey(key) == Lower(key) \in Range(AFFILIATE_PARAMS)

\* CleanedParams that stops filtering after the first affiliate key it drops.
RECURSIVE CleanedParams_FirstOnly(_)
CleanedParams_FirstOnly(dict) ==
    IF dict = <<>> THEN <<>>
    ELSE IF Lower(Head(dict).key) \in Range(AFFILIATE_PARAMS) THEN Tail(dict)
    ELSE <<Head(dict)>> \o CleanedParams_FirstOnly(Tail(dict))

\* cleaned_params: the entries of the dict whose key the filter does not match.
CleanedParams(dict) ==
    SelectSeqOf(dict, {d \in Range(dict) : ~IsAffiliateKey(d.key)})

strip_affiliate_tags(url) ==
    LET parsed_url == urlparse(url)
        query_params == parse_qs(parsed_url.query)
        cleaned_query == urlencode(CleanedParams(query_params))
    IN  urlunparse([parsed_url EXCEPT !.query = cleaned_query])

(***************************************************************************)
(* unshorten_url (src/app.py 80-105).  None is <<>>, a value v is <<v>>.   *)
(***************************************************************************)

\* any(shortener in parsed_url.netloc for shortener in SUPPORTED_SHORTENERS)
IsKnownShortener(netloc) == \E k \in 1..Len(SUPPORTED_SHORTENERS) : Contains(netloc, SUPPORTED_SHORTENERS[k])

\* The guards before the try: TRUE when unshorten_url reaches requests.head.
ReachesHead(short_url) ==
    LET parsed_url == urlparse(short_url)
    IN  parsed_url.netloc # "" /\ IsKnownShortener(parsed_url.netloc)

\* The value unshorten_url returns: response.url when the HEAD succeeded
\* (head = <<final_url>>), the argument when the HEAD raised a
\* RequestException (head = <<>>) or was not made.
unshorten_url(short_url, head) ==
    IF ReachesHead(short_url) /\ head # <<>> THEN head[1] ELSE short_url

(***************************************************************************)
(* scrape_product_info (src/app.py 144-293).  A fetched page is the record *)
(* of what BeautifulSoup finds in it: og_title, title, h1 (<<>> when the   *)
(* element or its string is missing), texts (the text nodes, in document   *)
(* order), price_elems (str() of the elements with a price class) and      *)
(* size_elems (the elements the size lambda selects: stripped text and     *)
(* class list).                                                            *)
(***************************************************************************)

size_labels_list == <<"S", "M", "L", "XL", "XXL", "XXXL", "Free Size", "One Size">>

\* Lines 171-186: the title taken from the caption.
CaptionTitle(message_caption) ==
    LET t0 == CollapseSpaces(message_caption)
        g == FirstTag(t0, GENDER_TAGS)
        t1 == IF g # <<>> /\ ~StartsWith(Lower(t0), g[1])
              THEN Capitalize(g[1]) \o " " \o t0 ELSE t0
        q == FirstTag(t1, QUANTITY_TAGS)
    IN  IF q # <<>> /\ ~StartsWith(Lower(t1), q[1])
        THEN Capitalize(q[1]) \o " " \o t1 ELSE t1

\* The title before the fetch: the caption's when there is a caption.
TitleBeforeFetch(caption) ==
    IF caption # <<>> /\ caption[1] # "" THEN CaptionTitle(caption[1]) ELSE "N/A"

\* Lines 198-208: og:title, then <title>, then <h1>, else the title stays.
RawPageTitle(page) ==
    IF page.og_title # <<>> /\ page.og_title[1] # "" THEN page.og_title[1]
    ELSE IF page.title # <<>> /\ page.title[1] # "" THEN page.title[1]
    ELSE IF page.h1 # <<>> /\ page.h1[1] # "" THEN page.h1[1]
    ELSE "N/A"

\* Lines 214-222 and 224-232: prefix the first tag found, then, when one was
\* found, delete every tag of the list from the title.
PrefixAndRemove(title, tags) ==
    LET f == FirstTag(title, tags)
    IN  IF f = <<>> THEN title
        ELSE RemoveAllTags(Capitalize(f[1]) \o " " \o title, tags)

\* Lines 196-234: the title scraped from the page when the caption gave none.
ScrapedTitle(title, page) ==
    IF title # "N/A" THEN title
    ELSE LET raw == RawPageTitle(page)
         IN  IF raw = "N/A" THEN raw
             ELSE PrefixAndRemove(PrefixAndRemove(Strip(NoiseRemove(raw)), GENDER_TAGS),
                                  QUANTITY_TAGS)

\* The candidates when the text nodes in hits matched PRICE_PATTERN.
CandidatesOr(hits, price_elems) == IF hits = <<>> THEN price_elems ELSE hits

\* Lines 238-240: the text nodes PRICE_PATTERN matches, else the elements
\* with a price class.
PriceCandidates(page) ==
    CandidatesOr(SelectSeqOf(page.texts, {t \in Range(page.texts) : PriceSearch(t) # <<>>}),
                 page.price_elems)

\* Lines 242-249: group 1 of the first candidate that matches, commas removed.
FirstPriceOf(c) ==
    IF \E k \in 1..Len(c) : PriceSearch(c[k]) # <<>>
    THEN RemoveChar(PriceSearch(c[Least({k \in 1..Len(c) : PriceSearch(c[k]) # <<>>})])[1], ",")
    ELSE "N/A"

ScrapedPrice(page) == FirstPriceOf(PriceCandidates(page))

UpperLabels == {Upper(size_labels_list[k]) : k \in 1..Len(size_labels_list)}

\* Lines 264-270: the texts of the size elements that are a size label and
\* are not marked unavailable or disabled.
AvailableSizes(page) ==
    {e.text : e \in {x \in Range(page.size_elems) :
                        /\ Upper(x.text) \in UpperLabels
                        /\ "unavailable" \notin x.classes
                        /\ "disabled" \notin x.classes}}

\* size_labels_list.index(x.upper()) raises ValueError when the upper-cased text
\* is no element of the list as written ("FREE SIZE", "ONE SIZE").
SortKeyRaises(sizes) == \E x \in sizes : Upper(x) \notin Range(size_labels_list)

\* The sort key of line 274, for a text whose key does not raise.
SizeKey(x) == CHOOSE k \in 1..Len(size_labels_list) : size_labels_list[k] = Upper(x)

RECURSIVE SortedOrders(_)
\* sorted(list(set(available_sizes)), key=...): the orders the sort can give;
\* texts with equal keys keep the set's iteration order, which is any order.
SortedOrders(sizes) ==
    IF sizes = {} THEN {<<>>}
    ELSE LET least == {x \in sizes : \A y \in sizes : SizeKey(x) <= SizeKey(y)}
         IN  UNION {{<<x>> \o t : t \in SortedOrders(sizes \ {x})} : x \in least}

\* Lines 272-281: the sizes attribute for one order of the sorted list.
SizesText(unique_sizes) ==
    IF unique_sizes = <<>> THEN "Not Found"
    ELSE IF Len(unique_sizes) >= Len(size_labels_list) - 2 THEN "All"
    ELSE Join(unique_sizes, ", ")

\* Lines 286-291.
PinFor(url) == IF Contains(url, "meesho.com") THEN MEESHO_FALLBACK_PIN ELSE "N/A"

\* The product_info returned at line 191, when the fetch gave nothing.
InfoWithoutPage(url, caption) ==
    [title |-> TitleBeforeFetch(caption), price |-> "N/A", sizes |-> "N/A",
     pin |-> "N/A", link |-> url]

\* The product_info returned at line 293 for one order of the sizes.
InfoFromPage(url, caption, page, unique_sizes) ==
    [title |-> ScrapedTitle(TitleBeforeFetch(caption), page),
     price |-> ScrapedPrice(page),
     sizes |-> SizesText(unique_sizes),
     pin |-> PinFor(url),
     link |-> url]

(***************************************************************************)
(* scrape_and_format_deal, the formatting part (src/app.py 377-424).       *)
(***************************************************************************)

ATTRIBUTION == "@reviewcheckk"

\* Lines 391-396 and 397-401: the prefix and the title without the tag.
PrefixOf(display_title, tags) ==
    LET f == FirstTag(display_title, tags)
    IN  IF f = <<>> THEN <<>> ELSE <<Capitalize(f[1])>>

TitleWithout(display_title, tags) ==
    LET f == FirstTag(display_title, tags)
    IN  IF f = <<>> THEN display_title ELSE Strip(TagRemove(display_title, f[1]))

\* Lines 382-404: final_output_title.
FinalOutputTitle(title) ==
    LET t0 == Strip(BracketRemove(title))
        t1 == TitleWithout(t0, GENDER_TAGS)
        t2 == TitleWithout(t1, QUANTITY_TAGS)
        final_prefixes == PrefixOf(t0, GENDER_TAGS) \o PrefixOf(t1, QUANTITY_TAGS)
    IN  Strip(Join(final_prefixes \o <<Strip(t2)>>, " "))

\* Lines 406-422: formatted_lines.
FormattedLines(product_data, clean) ==
    <<FinalOutputTitle(product_data.title) \o " @" \o product_data.price \o " rs",
      product_data.link>>
        \o (IF product_data.sizes # "N/A" /\ product_data.sizes # "Not Found"
            THEN <<"\nSize - " \o product_data.sizes>> ELSE <<>>)
        \o (IF Contains(clean, "meesho.com") /\ product_data.pin # "N/A"
            THEN <<"Pin - " \o product_data.pin>> ELSE <<>>)
        \o <<"\n" \o ATTRIBUTION>>

\* Line 424.
FormatDeal(product_data, clean) == Join(FormattedLines(product_data, clean), "\n")

(***************************************************************************)
(* State.                                                                  *)
(***************************************************************************)
VARIABLES
    pc,                  \* where process_product_link stands for the message
    msg,                 \* update.message
    message_text,        \* message.text or message.caption (<<>> is None)
    product_link,        \* <<>> is None
    unshortened_link,
    clean_link,
    html_content,        \* <<>> is None, <<page>> the fetched page
    product_data,        \* <<>> before scrape_product_info returned
    formatted_deal_info, \* <<>> before scrape_and_format_deal returned
    replies,             \* the texts sent with message.reply_text, in order
    netlog,              \* the calls of requests.head and requests.get, in order
    raised,              \* the exceptions raised, with the place that caught them
    stripIn,             \* SpecStrip: the URL handed to strip_affiliate_tags
    stripOnce,           \* SpecStrip: strip_affiliate_tags(stripIn)
    stripTwice,          \* SpecStrip: strip_affiliate_tags(stripOnce)
    stripPc              \* SpecStrip: "start", "once", "twice"

handlerVars ==
    <<pc, msg, message_text, product_link, unshortened_link, clean_link, html_content,
      product_data, formatted_deal_info, replies, netlog, raised>>

stripVars == <<stripIn, stripOnce, stripTwice, stripPc>>

vars == <<handlerVars, stripVars>>

(***************************************************************************)
(* The reply literals of src/app.py.                                       *)
(***************************************************************************)

REPLY_ANALYZE == "Trying to analyze the image... (Note: Image-only link detection is limited.)"
REPLY_NO_LINK_IN_MESSAGE == "No product link detected in the message."
REPLY_NO_LINK == "No product link detected."
REPLY_PROCESSING == "Processing your link... Please wait a moment."
REPLY_OOPS ==
    "Oops! Something went wrong while preparing the deal information. Please try again or with a different link."
REPLY_UNEXPECTED ==
    "An unexpected error occurred with the bot. We've been notified! Please try again later."

(***************************************************************************)
(* Inputs: the messages Telegram delivers to process_product_link, the     *)
(* answers of the network to requests.head and the pages requests.get      *)
(* fetches.                                                                *)
(***************************************************************************)

NoMessage ==
    [text |-> <<>>, caption |-> <<>>, forwarded |-> FALSE, forward_user |-> FALSE,
     photo |-> FALSE, entities |-> <<>>]

TextMessage(t, ents) == [NoMessage EXCEPT !.text = <<t>>, !.entities = ents]

\* A forwarded photo; from_user is "forward_from or forward_sender_name" (a photo
\* forwarded from a channel carries neither).
ForwardedPhoto(cap, from_user) ==
    [NoMessage EXCEPT !.caption = cap, !.forwarded = TRUE, !.forward_user = from_user,
                      !.photo = TRUE]

UrlEntity(offset, length) == [type |-> "url", url |-> "", offset |-> offset, length |-> length]
TextLinkEntity(url, offset, length) ==
    [type |-> "text_link", url |-> url, offset |-> offset, length |-> length]
BoldEntity(offset, length) == [type |-> "bold", url |-> "", offset |-> offset, length |-> length]

Messages ==
    { TextMessage("Check this out https://cutt.ly/xyz men pack of 2", <<>>),
      TextMessage("Check this out https://cutt.ly/xyz men pack of 2", <<UrlEntity(15, 19)>>),
      TextMessage("hello there", <<>>),
      TextMessage("Price Rs.500 only, v1.2 e.g. shoes", <<BoldEntity(6, 6)>>),
      TextMessage("Deal here", <<BoldEntity(0, 4), TextLinkEntity("https://cutt.ly@shop.example/p?tag=1", 5, 4)>>),
      TextMessage("https://shop.example/item?a=1&b=2&a=3&linkCode=z", <<>>),
      TextMessage("fkrt.cc/abc", <<UrlEntity(0, 11)>>),
      TextMessage("buy at fkrt.cc/abc today", <<>>),
      TextMessage("https://www.wishlink.com/user/post/1", <<>>),
      TextMessage("https://shop.in/p?from=meesho.com", <<>>),
      ForwardedPhoto(<<>>, TRUE),
      ForwardedPhoto(<<>>, FALSE),
      ForwardedPhoto(<<"Nice shoes for women">>, TRUE),
      ForwardedPhoto(<<"Men Cotton Shirt pack of 2 https://www.meesho.com/p/1?utm_source=wa&pid=7">>, TRUE) }

\* The URLs a redirect chain of a shortener can end at with a 2xx status, beside
\* the shortener's own URL (a shortener that answers 200 itself).
RedirectTargets ==
    { "https://shop.example/tshirt?tag=abc123&color=red",
      "https://www.meesho.com/p/9?ref=x&q=",
      "https://da.gd/next" }

NoPage ==
    [og_title |-> <<>>, title |-> <<>>, h1 |-> <<>>, texts |-> <<>>,
     price_elems |-> <<>>, size_elems |-> <<>>]

SizeElem(text, classes) == [text |-> text, classes |-> classes]

Pages ==
    { NoPage,
      [NoPage EXCEPT !.og_title = <<"Cotton T-Shirt | Shop">>,
                     !.texts = <<"Cotton T-Shirt", "₹599">>],
      [NoPage EXCEPT !.title = <<"Men Running Shoes - Buy Online at Best Price">>,
                     !.texts = <<"Men Running Shoes", "Rs 1,299.00", "Rs 999">>,
                     !.size_elems = <<SizeElem("M", {"size-label"}), SizeElem("S", {"size-label"}),
                                      SizeElem("L", {"size-label", "disabled"}),
                                      SizeElem("m", {"size-label"})>>],
      [NoPage EXCEPT !.h1 = <<"Kids Toy Set of 3">>,
                     !.texts = <<"Out of stock">>,
                     !.price_elems = <<"<span class=\"price\">499</span>">>],
      [NoPage EXCEPT !.title = <<"Saree Online at Best Price">>,
                     !.texts = <<"Rs 250">>,
                     !.size_elems = <<SizeElem("Free Size", {"size-variant"})>>],
      [NoPage EXCEPT !.title = <<"Kids - Buy Online at Best Price">>,
                     !.texts = <<"Rs 450">>],
      [NoPage EXCEPT !.title = <<"Unisex Hoodie">>,
                     !.texts = <<"MRP", "Rs 1299">>,
                     !.size_elems = <<SizeElem("S", {}), SizeElem("M", {}), SizeElem("L", {}),
                                      SizeElem("XL", {}), SizeElem("XXL", {}), SizeElem("XXXL", {}),
                                      SizeElem("s", {})>>] }

(***************************************************************************)
(* process_product_link (src/app.py 305-361) with scrape_and_format_deal   *)
(* (363-428) in the steps it awaits.  message.reply_text delivers: the     *)
(* transport is not part of the model.                                     *)
(***************************************************************************)

\* Python's truth of an optional string: neither None nor ''.
Truthy(opt) == opt # <<>> /\ opt[1] # ""

HandlerIdle ==
    /\ pc = "idle"
    /\ msg = NoMessage
    /\ message_text = <<>>
    /\ product_link = <<>>
    /\ unshortened_link = ""
    /\ clean_link = ""
    /\ html_content = <<>>
    /\ product_data = <<>>
    /\ formatted_deal_info = <<>>
    /\ replies = <<>>
    /\ netlog = <<>>
    /\ raised = <<>>

StripIdle ==
    /\ stripIn = ""
    /\ stripOnce = ""
    /\ stripTwice = ""
    /\ stripPc = "idle"

Init == HandlerIdle /\ StripIdle

\* The webhook hands the next update to the handler; nothing of the message
\* before stays.
Receive(m) ==
    /\ pc \in {"idle", "done", "handled"}
    /\ pc' = "check_text"
    /\ msg' = m
    /\ message_text' = <<>>
    /\ product_link' = <<>>
    /\ unshortened_link' = ""
    /\ clean_link' = ""
    /\ html_content' = <<>>
    /\ product_data' = <<>>
    /\ formatted_deal_info' = <<>>
    /\ replies' = <<>>
    /\ netlog' = <<>>
    /\ raised' = <<>>
    /\ UNCHANGED stripVars

\* Lines 310-327.
CheckText ==
    /\ pc = "check_text"
    /\ LET mt == IF Truthy(msg.text) THEN msg.text ELSE msg.caption
       IN  /\ message_text' = mt
           /\ IF Truthy(mt)
              THEN pc' = "find_link" /\ UNCHANGED replies
              ELSE IF msg.forward_user /\ msg.photo
                   THEN pc' = "find_link" /\ replies' = Append(replies, REPLY_ANALYZE)
                   ELSE pc' = "done" /\ replies' = Append(replies, REPLY_NO_LINK_IN_MESSAGE)
    /\ UNCHANGED <<msg, product_link, unshortened_link, clean_link, html_content,
                   product_data, formatted_deal_info, netlog, raised, stripVars>>

\* Lines 331-338: the link of the first text_link entity with a url or of the
\* first url entity, <<>> when there is none.
EntityLink(entities, text) ==
    LET hit == {k \in 1..Len(entities) :
                   \/ entities[k].type = "text_link" /\ entities[k].url # ""
                   \/ entities[k].type = "url"}
    IN  IF hit = {} THEN <<>>
        ELSE LET e == entities[CHOOSE k \in hit : \A m \in hit : k <= m]
             IN  IF e.type = "text_link" THEN <<e.url>>
                 ELSE <<SubSeq(text[1], e.offset + 1, e.offset + e.length)>>

\* Lines 341-350 once product_link is settled: the notice of line 345 and the
\* return, or the notice of line 349 and on to scrape_and_format_deal.
LinkDecided(link) ==
    /\ product_link' = link
    /\ IF ~Truthy(link)
       THEN pc' = "done" /\ replies' = Append(replies, REPLY_NO_LINK)
       ELSE pc' = "unshorten" /\ replies' = Append(replies, REPLY_PROCESSING)
    /\ UNCHANGED raised

\* Lines 329-342.  extract_product_link(None) raises TypeError at line 70, outside
\* the try of line 352: the exception leaves process_product_link.
LinkFrom(fromEntity) ==
    IF Truthy(fromEntity) THEN LinkDecided(fromEntity)
    ELSE IF message_text = <<>>
    THEN /\ pc' = "raised"
         /\ raised' = Append(raised, [exception |-> "TypeError", caught_by |-> "error_handler"])
         /\ UNCHANGED <<product_link, replies>>
    ELSE LinkDecided(extract_product_link(message_text[1]))

\* Lines 329-350.
FindLink ==
    /\ pc = "find_link"
    /\ LinkFrom(EntityLink(msg.entities, message_text))
    /\ UNCHANGED <<msg, message_text, unshortened_link, clean_link, html_content,
                   product_data, formatted_deal_info, netlog, stripVars>>

\* Unshorten that calls requests.head a second time when the first call raised.
Unshorten_RetryOnce ==
    /\ pc = "unshorten"
    /\ IF ReachesHead(product_link[1])
       THEN \E head \in {<<>>} \cup {<<u>> : u \in {product_link[1]} \cup RedirectTargets} :
                /\ unshortened_link' = unshorten_url(product_link[1], head)
                /\ netlog' = Append(netlog, [method |-> "HEAD", url |-> product_link[1],
                                             ok |-> head # <<>>])
                /\ pc' = IF head = <<>> /\ netlog = <<>> THEN "unshorten" ELSE "strip"
       ELSE /\ unshortened_link' = unshorten_url(product_link[1], <<>>)
            /\ UNCHANGED netlog
            /\ pc' = "strip"
    /\ UNCHANGED <<msg, message_text, product_link, clean_link, html_content, product_data,
                   formatted_deal_info, replies, raised, stripVars>>

\* Line 369, unshorten_url: one requests.head when the guards let it through;
\* the network answers with a RequestException (<<>>) or with the last URL of
\* the redirect chain.
Unshorten ==
    /\ pc = "unshorten"
    /\ IF ReachesHead(product_link[1])
       THEN \E head \in {<<>>} \cup {<<u>> : u \in {product_link[1]} \cup RedirectTargets} :
                /\ unshortened_link' = unshorten_url(product_link[1], head)
                /\ netlog' = Append(netlog, [method |-> "HEAD", url |-> product_link[1],
                                             ok |-> head # <<>>])
       ELSE /\ unshortened_link' = unshorten_url(product_link[1], <<>>)
            /\ UNCHANGED netlog
    /\ pc' = "strip"
    /\ UNCHANGED <<msg, message_text, product_link, clean_link, html_content, product_data,
                   formatted_deal_info, replies, raised, stripVars>>

\* Line 372.
StripLink ==
    /\ pc = "strip"
    /\ clean_link' = strip_affiliate_tags(unshortened_link)
    /\ pc' = "fetch"
    /\ UNCHANGED <<msg, message_text, product_link, unshortened_link, html_content,
                   product_data, formatted_deal_info, replies, netlog, raised, stripVars>>

\* requests.get can answer only an http(s) URL with a host; any other raises
\* MissingSchema or InvalidURL, which are RequestExceptions.
Fetchable(url) == urlparse(url).scheme \in {"http", "https"} /\ urlparse(url).netloc # ""

\* Line 375, scrape_product_info up to line 191: fetch_page_content makes one
\* requests.get and gives None on any RequestException.
Fetch ==
    /\ pc = "fetch"
    /\ \E html \in {<<>>} \cup (IF Fetchable(clean_link) THEN {<<p>> : p \in Pages} ELSE {}) :
           /\ html_content' = html
           /\ netlog' = Append(netlog, [method |-> "GET", url |-> clean_link, ok |-> html # <<>>])
           /\ IF html = <<>>
              THEN /\ product_data' = <<InfoWithoutPage(clean_link, msg.caption)>>
                   /\ pc' = "format"
              ELSE /\ UNCHANGED product_data
                   /\ pc' = "extract"
    /\ UNCHANGED <<msg, message_text, product_link, unshortened_link, clean_link,
                   formatted_deal_info, replies, raised, stripVars>>

\* scrape_product_info, lines 193-293.  The ValueError of the sort key is caught
\* at line 426, which returns the fixed text of line 428.
Extract ==
    /\ pc = "extract"
    /\ LET sizes == AvailableSizes(html_content[1])
       IN  IF SortKeyRaises(sizes)
           THEN /\ raised' = Append(raised, [exception |-> "ValueError",
                                             caught_by |-> "scrape_and_format_deal"])
                /\ formatted_deal_info' = <<REPLY_OOPS>>
                /\ pc' = "send"
                /\ UNCHANGED product_data
           ELSE \E unique_sizes \in SortedOrders(sizes) :
                    /\ product_data' =
                           <<InfoFromPage(clean_link, msg.caption, html_content[1], unique_sizes)>>
                    /\ pc' = "format"
                    /\ UNCHANGED <<raised, formatted_deal_info>>
    /\ UNCHANGED <<msg, message_text, product_link, unshortened_link, clean_link, html_content,
                   replies, netlog, stripVars>>

\* Lines 377-424.
Format ==
    /\ pc = "format"
    /\ formatted_deal_info' = <<FormatDeal(product_data[1], clean_link)>>
    /\ pc' = "send"
    /\ UNCHANGED <<msg, message_text, product_link, unshortened_link, clean_link, html_content,
                   product_data, replies, netlog, raised, stripVars>>

\* Line 358.
SendDeal ==
    /\ pc = "send"
    /\ replies' = Append(replies, formatted_deal_info[1])
    /\ pc' = "done"
    /\ UNCHANGED <<msg, message_text, product_link, unshortened_link, clean_link, html_content,
                   product_data, formatted_deal_info, netlog, raised, stripVars>>

\* error_handler (lines 430-436): what the application runs when an exception
\* left the handler.
ErrorHandler ==
    /\ pc = "raised"
    /\ replies' = Append(replies, REPLY_UNEXPECTED)
    /\ pc' = "handled"
    /\ UNCHANGED <<msg, message_text, product_link, unshortened_link, clean_link, html_content,
                   product_data, formatted_deal_info, netlog, raised, stripVars>>

Next ==
    \/ \E m \in Messages : Receive(m)
    \/ CheckText
    \/ FindLink
    \/ Unshorten
    \/ StripLink
    \/ Fetch
    \/ Extract
    \/ Format
    \/ SendDeal
    \/ ErrorHandler

Spec == Init /\ [][Next]_vars

(***************************************************************************)
(* Claims about the handler and the pipeline, checked under Spec.          *)
(***************************************************************************)

Last(seq) == seq[Len(seq)]

\* The handler returned or an exception left it.
HandlerEnded == pc \in {"done", "raised", "handled"}

\* unshorten_url has returned for the message in hand.
AfterUnshorten == pc \in {"strip", "fetch", "extract", "format", "send", "done"} /\ Truthy(product_link)

\* The calls of requests.head (requests.get) made for the message in hand.
HeadCalls == {k \in 1..Len(netlog) : netlog[k].method = "HEAD"}
GetCalls == {k \in 1..Len(netlog) : netlog[k].method = "GET"}

\* The host of a netloc: what follows the last '@', up to the port, in lower case.
RECURSIVE AfterLastAt(_)
AfterLastAt(netloc) ==
    IF Find(netloc, "@") = 0 THEN netloc ELSE AfterLastAt(From(netloc, Find(netloc, "@") + 1))

HostOfNetloc(hostport) ==
    Lower(IF Find(hostport, ":") = 0 THEN hostport ELSE Upto(hostport, Find(hostport, ":")))

HostOf(url) == HostOfNetloc(AfterLastAt(urlparse(url).netloc))

\* C1: every message is answered with a final reply and no exception leaves
\* process_product_link: when the handler has ended it has returned, no
\* exception went to the application's error handler, and the last text sent
\* is a final reply, not a progress notice.
C1_AlwaysRepliesNothingEscapes ==
    /\ \A k \in 1..Len(raised) : raised[k].caught_by # "error_handler"
    /\ HandlerEnded =>
           /\ pc = "done"
           /\ replies # <<>>
           /\ Last(replies) \notin {REPLY_ANALYZE, REPLY_PROCESSING}

\* A URL-shaped substring: a letter, digit or hyphen, a dot, two letters.
HasUrlShape(text) ==
    \E i \in 1..Len(text) :
        /\ Ch(text, i) \in Letters \cup Digits \cup {"-"}
        /\ Ch(text, i + 1) = "."
        /\ Ch(text, i + 2) \in Letters
        /\ Ch(text, i + 3) \in Letters

\* The text of the message in hand: its text, else its caption.
TextOf(m) == IF Truthy(m.text) THEN m.text ELSE m.caption

\* The message has a text, the text has no URL-shaped substring and no entity
\* is a url or a text_link.
NoUrlInMessage ==
    /\ Truthy(TextOf(msg))
    /\ ~HasUrlShape(TextOf(msg)[1])
    /\ \A k \in 1..Len(msg.entities) : msg.entities[k].type \notin {"url", "text_link"}

\* C2: for a message whose text has no URL-shaped substring and no url or
\* text_link entity, extract_product_link returns None, the only reply is the
\* "no link detected" notice and neither requests.head nor requests.get is called.
C2_NoUrlNoLinkNoNetwork ==
    NoUrlInMessage =>
        /\ netlog = <<>>
        /\ pc \in {"check_text", "find_link", "done"}
        /\ pc = "done" => product_link = <<>> /\ replies = <<REPLY_NO_LINK>>

\* C2's case: the handler returned for a text without a URL that carries an
\* entity of another type, after the regex was run on it.
C2_Witness ==
    /\ NoUrlInMessage
    /\ msg.entities # <<>>
    /\ pc = "done"
    /\ replies = <<REPLY_NO_LINK>>

\* The fixed texts the code can send as a last reply.
FixedReplies == {REPLY_NO_LINK_IN_MESSAGE, REPLY_NO_LINK, REPLY_OOPS, REPLY_UNEXPECTED}

\* The reply carries a "Title @price rs" line.
HasPriceLine(reply) == Contains(Split(reply, "\n")[1], " @") /\ EndsWith(Split(reply, "\n")[1], " rs")

\* fetch_page_content returned None for the message in hand.
FetchFailed == \E k \in GetCalls : ~netlog[k].ok

\* C3: when fetch_page_content fails the reply is a fixed notice and carries no
\* "Title @price rs" line.
C3_FetchFailureFixedNotice ==
    (pc = "done" /\ FetchFailed) =>
        /\ Last(replies) \in FixedReplies
        /\ ~HasPriceLine(Last(replies))

\* C4: whatever scrape_and_format_deal returns ends with the attribution line
\* as its last line.
C4_ReplyEndsWithAttribution ==
    formatted_deal_info # <<>> => EndsWith(formatted_deal_info[1], "\n" \o ATTRIBUTION)

\* A non-empty run of decimal digits.
IsDigitRun(s) == s # "" /\ \A i \in 1..Len(s) : Ch(s, i) \in Digits

\* C8: the price placed in the reply is a non-empty run of decimal digits,
\* whether a price was found or not.
C8_PriceIsDigitsOnly ==
    (pc \in {"format", "send", "done"} /\ product_data # <<>>) =>
        IsDigitRun(product_data[1].price)

\* The host is an entry of SUPPORTED_SHORTENERS or a subdomain of one.
HostIsShortener(host) ==
    \E k \in 1..Len(SUPPORTED_SHORTENERS) :
        host = SUPPORTED_SHORTENERS[k] \/ EndsWith(host, "." \o SUPPORTED_SHORTENERS[k])

\* requests.head raised for the message in hand.
HeadFailed == \E k \in HeadCalls : ~netlog[k].ok

\* C9: once unshorten_url has returned, the host of its result is no shortener,
\* unless the request failed, and then the result is the argument.
C9_ResolvedHostIsNoShortener ==
    AfterUnshorten =>
        IF HeadFailed THEN unshortened_link = product_link[1]
        ELSE ~HostIsShortener(HostOf(unshortened_link))

\* The host contains an entry of SUPPORTED_SHORTENERS.
HostContainsShortener(host) ==
    \E k \in 1..Len(SUPPORTED_SHORTENERS) : Contains(host, SUPPORTED_SHORTENERS[k])

\* C10: for a URL whose host contains no entry of SUPPORTED_SHORTENERS,
\* unshorten_url returns the URL unchanged and requests.head is not called.
C10_OtherHostNoRequest ==
    (AfterUnshorten /\ ~HostContainsShortener(HostOf(product_link[1]))) =>
        /\ unshortened_link = product_link[1]
        /\ HeadCalls = {}

\* scrape_and_format_deal returned what it formatted from product_data.
DealFormatted == product_data # <<>> /\ formatted_deal_info # <<>>

\* The host is the pincode retailer's or a subdomain of it.
HostIsMeesho(host) == host = "meesho.com" \/ EndsWith(host, ".meesho.com")

\* The reply has a line that starts with "Pin - ".
HasPinLine(reply) ==
    \E k \in 1..Len(Split(reply, "\n")) : StartsWith(Split(reply, "\n")[k], "Pin - ")

\* C11: when the host of the clean URL is not meesho.com, wherever else the
\* retailer's name occurs in the URL, the pin of product_data is empty ("N/A")
\* and the formatted reply has no "Pin -" line.
C11_PinOnlyForMeeshoHost ==
    (DealFormatted /\ ~HostIsMeesho(HostOf(clean_link))) =>
        /\ product_data[1].pin = "N/A"
        /\ ~HasPinLine(formatted_deal_info[1])

\* Line 1 of the formatted reply.
Line1 == Split(formatted_deal_info[1], "\n")[1]

\* The string the title strategies start from: the caption, else the page's title.
RawTitle ==
    IF Truthy(msg.caption) THEN msg.caption[1]
    ELSE IF html_content # <<>> /\ RawPageTitle(html_content[1]) # "N/A"
         THEN RawPageTitle(html_content[1])
    ELSE ""

\* The hint text: the message's text or caption.
HintText == IF Truthy(TextOf(msg)) THEN TextOf(msg)[1] ELSE ""

\* The first keyword of GENDER_TAGS, in the list's order, that is a whole word of
\* the title or of the hint text; <<>> when none is.
ExpectedGender == FirstTag(RawTitle \o " " \o HintText, GENDER_TAGS)

\* The number of whole-word occurrences of tag in s, whatever the case.
CountTag(s, tag) == Cardinality({i \in 1..Len(s) : TagMatchAt(s, tag, i)})

\* C12: when a gender keyword is a whole word of the title or of the hint text,
\* line 1 of the reply starts with the capitalized first such keyword (in the
\* order men, women, kids, unisex) and holds it exactly once; when none is, line 1
\* holds no gender keyword.
C12_GenderTagFirstKeywordOnce ==
    DealFormatted =>
        IF ExpectedGender = <<>>
        THEN \A k \in 1..Len(GENDER_TAGS) : CountTag(Line1, GENDER_TAGS[k]) = 0
        ELSE /\ StartsWith(Line1, Capitalize(ExpectedGender[1]) \o " ")
             /\ CountTag(Line1, ExpectedGender[1]) = 1

\* The part of line 1 before " @<price> rs".
TitlePart == Upto(Line1, Len(Line1) - Len(" @" \o product_data[1].price \o " rs") + 1)

\* C13: the title part of line 1 of a formatted reply is never empty, whatever
\* the title strategies and the removal of gender and quantity keywords leave.
C13_TitleNeverEmpty == DealFormatted => Strip(TitlePart) # ""

\* The network calls made for the message in hand: at most one requests.head,
\* at most one requests.get, the head before the get.
NetworkCallsInOrder ==
    /\ Len(netlog) <= 2
    /\ Cardinality(HeadCalls) <= 1
    /\ Cardinality(GetCalls) <= 1
    /\ \A h \in HeadCalls : \A g \in GetCalls : h < g

\* One step of the pipeline: each stage hands over to the next one only, the
\* head is called only by the resolve stage and the get only by the fetch stage.
StageStep ==
    /\ pc = "unshorten" => pc' = "strip"
    /\ pc = "strip" => pc' = "fetch" /\ netlog' = netlog
    /\ pc = "fetch" => pc' \in {"extract", "format"} /\ Len(netlog') = Len(netlog) + 1
    /\ pc = "extract" => pc' \in {"format", "send"} /\ netlog' = netlog
    /\ pc = "format" => pc' = "send" /\ netlog' = netlog
    /\ pc' = "strip" => pc = "unshorten"
    /\ pc' = "fetch" => pc = "strip"
    /\ pc' = "extract" => pc = "fetch"
    /\ pc' = "format" => pc \in {"fetch", "extract"}
    /\ Len(netlog') > Len(netlog) => pc \in {"unshorten", "fetch"}

\* C14: a run of scrape_and_format_deal makes at most two network calls, at most
\* one requests.head and then at most one requests.get, none of them repeated
\* after a failure, and its stages follow one another in the order resolve,
\* strip, fetch, extract, format.
C14_TwoCallsStagesInOrder == []NetworkCallsInOrder /\ [][StageStep]_vars

\* C14's case: the handler returned after both calls were made and both failed.
C14_Witness ==
    /\ pc = "done"
    /\ Len(netlog) = 2
    /\ ~netlog[1].ok
    /\ ~netlog[2].ok

(***************************************************************************)
(* SpecStrip: strip_affiliate_tags on bounded inputs.                      *)
(***************************************************************************)

\* The longest query, in fields, built from CoreFields.
MaxPairs == 3

\* Query fields: repeated keys, a blank value, affiliate keys in several
\* spellings, an escaped key and an escaped value.
CoreFields ==
    <<"a=1", "b=2", "a=3", "c=", "tag=t", "Tag=t", "linkCode=x",
      "utm_source=u", "q=a+b", "ta%67=z">>

RECURSIVE FieldSeqs(_)
\* The sequences of at most n fields of CoreFields.
FieldSeqs(n) ==
    IF n = 0 THEN {<<>>}
    ELSE LET S == FieldSeqs(n - 1)
         IN  S \cup {Append(s, f) : s \in S, f \in Range(CoreFields)}

\* Every entry of AFFILIATE_PARAMS as written, in lower case and in upper case.
ProbeFields ==
    UNION {{e \o "=1", Lower(e) \o "=1", Upper(e) \o "=1"} : e \in Range(AFFILIATE_PARAMS)}

StripBases == {"https://shop.example/p", "https://a.in"}

StripQueries ==
    {Join(s, "&") : s \in FieldSeqs(MaxPairs)}
        \cup ProbeFields
        \cup {p \o "&" \o f : p \in ProbeFields, f \in Range(CoreFields)}
        \cup {f \o "&" \o p : p \in ProbeFields, f \in Range(CoreFields)}

StripInputs ==
    {IF q = "" THEN b ELSE b \o "?" \o q : b \in StripBases, q \in StripQueries}

InitStrip ==
    /\ HandlerIdle
    /\ stripIn \in StripInputs
    /\ stripOnce = ""
    /\ stripTwice = ""
    /\ stripPc = "start"

\* clean_link = strip_affiliate_tags(unshortened_link)
StripCall ==
    /\ stripPc = "start"
    /\ stripOnce' = strip_affiliate_tags(stripIn)
    /\ stripPc' = "once"
    /\ UNCHANGED <<stripIn, stripTwice, handlerVars>>

\* The function applied to its own result.
StripAgain ==
    /\ stripPc = "once"
    /\ stripTwice' = strip_affiliate_tags(stripOnce)
    /\ stripPc' = "twice"
    /\ UNCHANGED <<stripIn, stripOnce, handlerVars>>

NextStrip == StripCall \/ StripAgain

SpecStrip == InitStrip /\ [][NextStrip]_vars

\* The '&'-separated fields of the query of a URL, as written.
QueryFields(url) ==
    LET q == urlparse(url).query IN IF q = "" THEN <<>> ELSE Split(q, "&")

\* The key of a field as written: the text before its first '='.
FieldKey(f) == IF Find(f, "=") > 0 THEN Upto(f, Find(f, "=")) ELSE f

\* A key that matches an entry of the table when case is ignored on both sides.
MatchesTable(key) == \E e \in Range(AFFILIATE_PARAMS) : Lower(key) = Lower(e)

\* C5: after strip_affiliate_tags no query key of the result matches, case
\* ignored, an entry of AFFILIATE_PARAMS.
C5_NoAffiliateKeySurvives ==
    stripPc # "start" =>
        \A i \in 1..Len(QueryFields(stripOnce)) :
            ~MatchesTable(unquote_plus(FieldKey(QueryFields(stripOnce)[i])))

RECURSIVE NonAffiliate(_)
\* The fields of a query whose key matches no entry of the table, in order.
NonAffiliate(fields) ==
    IF fields = <<>> THEN <<>>
    ELSE (IF MatchesTable(unquote_plus(FieldKey(Head(fields)))) THEN <<>> ELSE <<Head(fields)>>)
             \o NonAffiliate(Tail(fields))

\* C6: the non-affiliate fields of the result are those of the input, in the
\* input's order, every occurrence of a repeated key in its place.
C6_NonAffiliatePairsPreserved ==
    stripPc # "start" =>
        NonAffiliate(QueryFields(stripOnce)) = NonAffiliate(QueryFields(stripIn))

\* C7: strip_affiliate_tags is idempotent.
C7_StripIdempotent ==
    stripPc = "twice" => stripTwice = stripOnce

\* C7's case: the second application ran on a URL the first one changed by
\* removing an affiliate pair and regrouping a repeated key.
C7_Witness ==
    /\ stripPc = "twice"
    /\ stripIn = "https://shop.example/p?a=1&tag=t&a=3"
    /\ stripOnce = "https://shop.example/p?a=1&a=3"

====
